---- MODULE Spec2Model ----
(***************************************************************************)
(* Model of the JUDIT proxy handler (api/judit/movimentacoes/full.js):     *)
(* query-parameter parsing, job submission, the main polling loop, the     *)
(* optional grace loop and the terminal classification of the invocation.  *)
(* One action per step of the handler between two control points; the      *)
(* clock advances only while the handler awaits (an upstream call, sleep). *)
(***************************************************************************)
EXTENDS Integers, Sequences, FiniteSets, TLC

VARIABLES
    pc,               \* control point of the handler
    now,              \* Date.now(), in ms since the invocation began
    query,            \* raw query-string values of the invocation
    env,              \* process.env: is JUDIT_API_KEY set
    waitMs, pollInterval, graceMs, gracePollMs, retryOnPending,
    requestId,        \* created?.request_id
    start, graceStart,
    attempts, completed, requestStatus,
    response,         \* what sendJson wrote (status code and body fields)
    calls,            \* upstream calls and sleeps performed so far
    hist              \* observations of the run, read by the properties only

vars == << pc, now, query, env, waitMs, pollInterval, graceMs, gracePollMs,
           retryOnPending, requestId, start, graceStart, attempts, completed,
           requestStatus, response, calls, hist >>

-----------------------------------------------------------------------------
(* Bounds of the model.                                                    *)

\* an upstream call takes k * CallStepMs, k in 1..MaxCallSteps
CallStepMs == 250
MaxCallSteps == 2

CallDurations == { k * CallStepMs : k \in 1..MaxCallSteps }

-----------------------------------------------------------------------------
(* JavaScript values.                                                      *)

None == "none"                      \* undefined, null, '' : any falsy value

\* a JS number: NaN or an integer
Num(v) == [nan |-> FALSE, v |-> v]
NaN == [nan |-> TRUE, v |-> 0]

\* a < b on JS numbers: every comparison with NaN is false
Lt(a, b) == ~a.nan /\ ~b.nan /\ a.v < b.v
Le(a, b) == ~a.nan /\ ~b.nan /\ a.v <= b.v

MathMin(a, b) == IF a.nan \/ b.nan THEN NaN ELSE IF a.v < b.v THEN a ELSE b
MathMax(a, b) == IF a.nan \/ b.nan THEN NaN ELSE IF a.v > b.v THEN a ELSE b

\* a query-string value: absent (searchParams.get gives null) or a string,
\* written as the sequence of its characters
Absent == [present |-> FALSE, chars |-> << >>]
Str(s) == [present |-> TRUE, chars |-> s]

Digits == {"0", "1", "2", "3", "4", "5", "6", "7", "8", "9"}
DigitVal(c) ==
    CASE c = "0" -> 0 [] c = "1" -> 1 [] c = "2" -> 2 [] c = "3" -> 3
      [] c = "4" -> 4 [] c = "5" -> 5 [] c = "6" -> 6 [] c = "7" -> 7
      [] c = "8" -> 8 [] c = "9" -> 9

RECURSIVE SkipSpace(_)
SkipSpace(s) == IF s # << >> /\ Head(s) = " " THEN SkipSpace(Tail(s)) ELSE s

RECURSIVE DigitPrefix(_)
DigitPrefix(s) ==
    IF s # << >> /\ Head(s) \in Digits THEN <<Head(s)>> \o DigitPrefix(Tail(s))
    ELSE << >>

RECURSIVE DigitsValue(_, _)
DigitsValue(s, acc) ==
    IF s = << >> THEN acc ELSE DigitsValue(Tail(s), 10 * acc + DigitVal(Head(s)))

\* parseInt(s, 10): leading blanks, an optional sign, the longest run of
\* digits; NaN when there is no digit
ParseInt(s) ==
    LET t == SkipSpace(s)
        signed == t # << >> /\ Head(t) \in {"-", "+"}
        u == IF signed THEN Tail(t) ELSE t
        d == DigitPrefix(u)
    IN  IF d = << >> THEN NaN
        ELSE IF signed /\ Head(t) = "-" THEN Num(0 - DigitsValue(d, 0))
        ELSE Num(DigitsValue(d, 0))

\* url.searchParams.get(key) || dflt
OrDefault(raw, dflt) == IF raw.present /\ raw.chars # << >> THEN raw.chars ELSE dflt


Lower(c) ==
    CASE c = "S" -> "s" [] c = "T" -> "t" [] c = "Y" -> "y" [] OTHER -> c
    \* (the capitals the model's query strings use)

RECURSIVE Reverse(_)
Reverse(s) == IF s = << >> THEN << >> ELSE Append(Reverse(Tail(s)), Head(s))

\* String.prototype.trim
Trim(s) == Reverse(SkipSpace(Reverse(SkipSpace(s))))

ToLowerCase(s) == [i \in 1..Len(s) |-> Lower(s[i])]

\* asBool(v): '1', 'true', 'yes' or 'sim' after trim and lower-casing
asBool(raw) ==
    IF ~raw.present THEN FALSE
    ELSE LET s == ToLowerCase(Trim(raw.chars))
         IN  s \in { <<"1">>, <<"t", "r", "u", "e">>, <<"y", "e", "s">>,
                     <<"s", "i", "m">> }

-----------------------------------------------------------------------------
(* Query parameters of the handler.                                        *)

DefaultWaitMs == <<"3", "0", "0", "0", "0">>
DefaultPollMs == <<"1", "5", "0", "0">>
DefaultGraceMs == <<"5", "0", "0", "0">>
DefaultGracePollMs == <<"8", "0", "0">>
DefaultFlag == <<"0">>

MaxWaitMs == 60000
MinPollMs == 750
MaxPollMs == 5000
MaxGraceMs == 15000
MinGracePollMs == 500
MaxGracePollMs == 3000

\* Math.min(parseInt(get('waitMs') || '30000', 10), 60000)
ParseWaitMs(raw) == MathMin(ParseInt(OrDefault(raw, DefaultWaitMs)), Num(MaxWaitMs))

\* Math.max(750, Math.min(parseInt(get('pollMs') || '1500', 10), 5000))
ParsePollMs(raw) ==
    MathMax(Num(MinPollMs),
            MathMin(ParseInt(OrDefault(raw, DefaultPollMs)), Num(MaxPollMs)))

\* Math.min(parseInt(get('graceMs') || '5000', 10), 15000)
ParseGraceMs(raw) == MathMin(ParseInt(OrDefault(raw, DefaultGraceMs)), Num(MaxGraceMs))

\* Math.max(500, Math.min(parseInt(get('gracePollMs') || '800', 10), 3000))
ParseGracePollMs(raw) ==
    MathMax(Num(MinGracePollMs),
            MathMin(ParseInt(OrDefault(raw, DefaultGracePollMs)), Num(MaxGracePollMs)))

\* asBool(get('retryOnPending') || '0')
ParseFlag(raw) == asBool(Str(OrDefault(raw, DefaultFlag)))

\* (get('cnj') || '').trim()
ParseCnj(raw) == Trim(OrDefault(raw, << >>))

\* the requests the model draws an invocation from: the path tells which
\* handler runs ("full": movimentacoes/full.js, "minimal": movimentacoes.js)
Query(path, cnj, w, p, r, g, gp, ia, wa) ==
    [ path |-> path, cnj |-> cnj, waitMs |-> w, pollMs |-> p, retryOnPending |-> r,
      graceMs |-> g, gracePollMs |-> gp, includeAttachments |-> ia,
      withAttachments |-> wa ]

Cnj == Str(<<" ", "8", "0">>)

Queries ==
    { \* no cnj: every parameter absent, empty or oversized
      Query("full", Absent, Absent, Absent, Absent, Absent, Absent, Absent, Absent),
      Query("full", Str(<<" ">>), Str(<<"9", "9", "9", "9", "9">>),
            Str(<<"9", "9", "9", "9">>), Str(<< >>), Str(<<"9", "9", "9", "9", "9">>),
            Str(<<"9", "9", "9", "9">>), Str(<<"1">>), Str(<< >>)),
      Query("full", Str(<< >>), Absent, Absent, Absent, Absent, Absent, Absent, Absent),
      \* a main loop of two iterations, no grace phase; attachments fetched
      \* but not asked for in the output
      Query("full", Cnj, Str(<<"4", "0", "0", "0">>), Absent, Absent, Absent, Absent,
            Absent, Str(<<"t", "r", "u", "e">>)),
      \* a main loop of two iterations, a grace phase of up to two;
      \* attachments asked for in the output
      Query("full", Cnj, Str(<<"4", "0", "0", "0">>), Absent, Str(<<" ", "S", "i", "m">>),
            Str(<<"1", "2", "0", "0", "m", "s">>), Absent, Str(<<"y", "e", "s">>), Absent),
      \* nothing numeric
      Query("full", Cnj, Str(<<"a", "b">>), Str(<<"x">>), Str(<<"1">>), Str(<<"n", "o">>),
            Str(<<"x">>), Str(<<"n", "o">>), Str(<<"n", "o">>)),
      \* a negative main budget, small intervals, the grace phase alone
      Query("full", Cnj, Str(<<"-", "5">>), Str(<<"0">>), Str(<<"T", "r", "u", "e">>),
            Str(<<"1", "2", "0", "0">>), Str(<<"1">>), Str(<<"1">>), Str(<<"1">>)),
      \* a non-numeric poll interval
      Query("full", Cnj, Str(<<"1", "0", "0", "0">>), Str(<<"x">>), Str(<<"n", "o">>),
            Absent, Absent, Str(<<"0">>), Str(<<"1">>)),
      \* the minimal profile: no cnj; a main loop and a grace phase; a short
      \* main loop alone
      Query("minimal", Str(<<" ", " ">>), Absent, Absent, Absent, Absent, Absent,
            Absent, Absent),
      Query("minimal", Cnj, Str(<<"4", "0", "0", "0">>), Absent, Str(<<"s", "i", "m">>),
            Str(<<"1", "2", "0", "0">>), Absent, Str(<<"1">>), Str(<<"1">>)),
      Query("minimal", Cnj, Str(<<"1", "0", "0", "0">>), Absent, Absent,
            Absent, Absent, Absent, Absent) }

-----------------------------------------------------------------------------
(* The upstream payload, as the normalizer reads it.                       *)

\* a JS value that is absent (undefined, null), a number or a string
JAbsent == [t |-> "absent", n |-> 0, s |-> ""]
JNum(n) == [t |-> "number", n |-> n, s |-> ""]
JStr(s) == [t |-> "string", n |-> 0, s |-> s]

\* ToBoolean: 0 and '' are falsy as null and undefined are
Truthy(v) == (v.t = "number" /\ v.n # 0) \/ (v.t = "string" /\ v.s # "")

\* a || b
Or(a, b) == IF Truthy(a) THEN a ELSE b

\* ToBoolean of a string-valued field (None: the field is absent)
TruthyStr(x) == x # None /\ x # ""

\* x || null on a string-valued field
OrNull(x) == IF TruthyStr(x) THEN x ELSE None

\* `${v}`
ToText(v) ==
    IF v.t = "string" THEN v.s
    ELSE CASE v.n = 0 -> "0" [] v.n = 1 -> "1" [] v.n = 2 -> "2" [] v.n = 3 -> "3"

\* a field that holds an array, or something else
NoArray == [isArray |-> FALSE, items |-> << >>]
Array(items) == [isArray |-> TRUE, items |-> items]

\* one level of a payload: the fields the normalizer extracts
NoObj ==
    [ present |-> FALSE, code |-> << >>, steps |-> NoArray, status |-> None,
      tribunal_acronym |-> None, instance |-> JAbsent, phase |-> None,
      attachments |-> NoArray ]
Obj(code, steps, status, tribunal, instance, phase, attachments) ==
    [ present |-> TRUE, code |-> code, steps |-> steps, status |-> status,
      tribunal_acronym |-> tribunal, instance |-> instance, phase |-> phase,
      attachments |-> attachments ]

\* a lawsuit object: its own fields and its response_data wrapper
NoLawsuit == [present |-> FALSE, top |-> NoObj, rd |-> NoObj]
Lawsuit(top, rd) == [present |-> TRUE, top |-> top, rd |-> rd]

\* a step of the case history
Step(id, date, content) == [step_id |-> id, step_date |-> date, content |-> content]

\* new Date(step_date) as a number: the time value, NaN for a date that is
\* missing or does not parse
DateValue(d) ==
    CASE d = "2024-01-10" -> Num(17048)
      [] d = "2024-03-05" -> Num(17103)
      [] d = "2024-03-06" -> Num(17104)
      [] OTHER -> NaN

\* the step dates the model draws from: none (the field is absent), three
\* days, a text that is no date
StepDates == {None, "2024-01-10", "2024-03-05", "2024-03-06", "n/a"}

-----------------------------------------------------------------------------
(* Upstream answers.                                                       *)

JobIds == {"job-a", "job-b"}
StatusValues == {"pending", "completed"}

\* the case code of the n-th listing's record
DigitChars == <<"0", "1", "2", "3", "4", "5", "6", "7", "8", "9">>
CodeOf(n) ==
    IF n < 10 THEN <<"#", DigitChars[n + 1]>>
    ELSE <<"#", DigitChars[((n \div 10) % 10) + 1], DigitChars[(n % 10) + 1]>>

\* what the n-th results listing carries: the record's own fields and its
\* response_data.  The case code is n, so records of different listings
\* differ; the rest cycles through four shapes
PayloadVariants == 4
PayloadTop(n) ==
    CASE n % PayloadVariants = 2 ->
           \* no response_data: the record itself is the lawsuit; a step
           \* without a date, falsy tribunal and instance, an attachment
           Obj(CodeOf(n), Array(<<Step(1, None, "a"), Step(2, "2024-03-05", "")>>),
               "", "", JNum(0), None, Array(<<7>>))
      [] OTHER ->
           \* everything sits in response_data
           Obj(CodeOf(n), NoArray, None, None, JAbsent, None, NoArray)
PayloadData(n) ==
    CASE n % PayloadVariants = 1 ->
           \* steps oldest first, a tribunal, first degree, attachments
           Lawsuit(Obj(CodeOf(n), Array(<<Step(1, "2024-01-10", "a"),
                                          Step(2, "2024-03-05", "b")>>),
                       "ATIVO", "TJBA", JStr("1"), "Inicial", Array(<<8, 9>>)),
                   NoObj)
      [] n % PayloadVariants = 2 -> NoLawsuit
      [] n % PayloadVariants = 3 ->
           \* a response_data nested in response_data
           Lawsuit(Obj(CodeOf(n), Array(<<Step(1, "2024-03-05", "a"),
                                          Step(2, "2024-01-10", "b")>>),
                       None, "TRF1", JNum(2), "", Array(<<8>>)),
                   Obj(<< >>, Array(<<Step(3, "2024-03-06", "c")>>),
                       None, None, JAbsent, None, NoArray))
      [] OTHER ->
           \* nothing but an empty step list and an instance of another kind
           Lawsuit(Obj(CodeOf(n), Array(<< >>), None, None, JStr("3"), None, NoArray),
                   NoObj)

\* a ResultRecord: page_data[0], with its own request_status, its own
\* fields, its response_data and, to tell records apart, the number of the
\* ListResults call that returned it
NoRecord ==
    [ present |-> FALSE, request_status |-> None, serial |-> 0,
      top |-> NoObj, response_data |-> NoLawsuit ]
Record(rs, n) ==
    [ present |-> TRUE, request_status |-> rs, serial |-> n,
      top |-> PayloadTop(n), response_data |-> PayloadData(n) ]

\* the first page of a results listing: page_data empty (or no array), or
\* non-empty with a record first and the listing's own request_status
EmptyPage == [items |-> 0, first |-> NoRecord, request_status |-> None]
Pages(n) ==
    {EmptyPage} \cup
    [ items : {1},
      first : { Record(rs, n) : rs \in StatusValues \cup {None} },
      request_status : StatusValues \cup {None} ]

\* lines 260 and 271: completed?.response_data || completed || null
LawsuitOf(record) ==
    IF record.response_data.present THEN record.response_data
    ELSE IF record.present THEN Lawsuit(record.top, NoObj)
    ELSE NoLawsuit

-----------------------------------------------------------------------------
(* Array.prototype.sort with the comparator of line 27.                    *)

\* (a, b) => new Date(b.step_date) - new Date(a.step_date); sort takes a
\* NaN result as 0
Comparator(a, b) ==
    LET x == DateValue(b.step_date)
        y == DateValue(a.step_date)
    IN  IF x.nan \/ y.nan THEN 0 ELSE x.v - y.v

\* the run the sort starts with: it ends before index idx when the order of
\* a[idx] against a[idx-1] breaks the run's direction
RECURSIVE RunEnd(_, _, _)
RunEnd(a, idx, descending) ==
    IF idx > Len(a) THEN Len(a)
    ELSE LET order == Comparator(a[idx], a[idx - 1])
         IN  IF (descending /\ order >= 0) \/ (~descending /\ order < 0)
             THEN idx - 1
             ELSE RunEnd(a, idx + 1, descending)

\* binary search of the place of pivot in a[left+1 .. right]
RECURSIVE InsertionPoint(_, _, _, _)
InsertionPoint(a, pivot, left, right) ==
    IF left >= right THEN left
    ELSE LET mid == left + ((right - left) \div 2)
         IN  IF Comparator(pivot, a[mid + 1]) < 0
             THEN InsertionPoint(a, pivot, left, mid)
             ELSE InsertionPoint(a, pivot, mid + 1, right)

\* binary insertion of a[start+1 ..] into the sorted a[1 .. start]
RECURSIVE InsertFrom(_, _)
InsertFrom(a, from) ==
    IF from >= Len(a) THEN a
    ELSE LET pivot == a[from + 1]
             pos == InsertionPoint(a, pivot, 0, from)
         IN  InsertFrom(SubSeq(a, 1, pos) \o <<pivot>> \o SubSeq(a, pos + 1, from)
                            \o SubSeq(a, from + 2, Len(a)),
                        from + 1)

\* mutant: the list is left in the order it came in
ArraySortSkipped(a) == a

\* steps.sort(comparator), for a list shorter than the merge threshold:
\* the first run is reversed when it descends, the rest is inserted
ArraySort(a) ==
    IF Len(a) < 2 THEN a
    ELSE LET descending == Comparator(a[2], a[1]) < 0
             run == RunEnd(a, 3, descending)
             made == IF descending
                     THEN Reverse(SubSeq(a, 1, run)) \o SubSeq(a, run + 1, Len(a))
                     ELSE a
         IN  InsertFrom(made, run)

-----------------------------------------------------------------------------
(* Response normalizer.                                                    *)

NoError == [present |-> FALSE, message |-> None]
Error(m) == [present |-> TRUE, message |-> m]

NoMeta ==
    [ request_status |-> None, is_partial |-> FALSE, waited_ms |-> 0,
      attempts |-> 0, message |-> None ]

NullCnj == << >>
NoMovement == [present |-> FALSE, id |-> 0, data |-> None, conteudo |-> None]

FullKeys ==
    { "ok", "cnj", "fonte", "status", "ultima_movimentacao_data", "texto",
      "ultima_movimentacao", "movimentacoes", "processo", "partes", "anexos",
      "meta", "erro" }
MinimalKeys ==
    { "cnj", "fonte", "status", "processo.fase", "ultima_movimentacao.conteudo",
      "ultima_movimentacao_data" }

FonteFallback == <<"Fonte nao informada">>
GrauFallback == "instancia nao informada"

\* line 19: lawsuit?.response_data || lawsuit || {}
RD(lawsuit) ==
    IF lawsuit.present /\ lawsuit.rd.present THEN lawsuit.rd
    ELSE IF lawsuit.present THEN lawsuit.top ELSE NoObj

\* lawsuit?.field
Top(lawsuit) == IF lawsuit.present THEN lawsuit.top ELSE NoObj

\* lines 22-26: the list the movements are taken from
StepsOf(lawsuit) ==
    IF Top(lawsuit).steps.isArray THEN Top(lawsuit).steps.items
    ELSE IF RD(lawsuit).steps.isArray THEN RD(lawsuit).steps.items
    ELSE << >>

\* mutant: no default stands in for a missing status
StatusOfNoDefault(lawsuit, steps) == OrNull(RD(lawsuit).status)

\* line 31
StatusOf(lawsuit, steps) ==
    IF TruthyStr(RD(lawsuit).status) THEN RD(lawsuit).status
    ELSE IF Len(steps) > 0 THEN "ANDAMENTO" ELSE "DESCONHECIDO"

\* line 32
TribunalOf(lawsuit) ==
    IF TruthyStr(RD(lawsuit).tribunal_acronym) THEN RD(lawsuit).tribunal_acronym
    ELSE OrNull(Top(lawsuit).tribunal_acronym)

\* line 33
InstanciaRaw(lawsuit) == Or(RD(lawsuit).instance, Or(Top(lawsuit).instance, JAbsent))

\* mutant: the number 2 is not recognised as the second degree
GrauFmtTextOnly(instanciaRaw) ==
    IF instanciaRaw = JStr("1") \/ instanciaRaw = JNum(1) THEN "1o grau"
    ELSE IF instanciaRaw = JStr("2") THEN "2o grau"
    ELSE IF Truthy(instanciaRaw) THEN ToText(instanciaRaw)
    ELSE GrauFallback

\* lines 34-39
GrauFmt(instanciaRaw) ==
    IF instanciaRaw = JStr("1") \/ instanciaRaw = JNum(1) THEN "1o grau"
    ELSE IF instanciaRaw = JStr("2") \/ instanciaRaw = JNum(2) THEN "2o grau"
    ELSE IF Truthy(instanciaRaw) THEN ToText(instanciaRaw)
    ELSE GrauFallback

\* mutant: the label is built whether or not there is a tribunal
FonteOfAlways(tribunal, grauFmt) == <<tribunal, " - ", grauFmt>>

\* line 106: the template `${tribunal} - ${grauFmt}`, or the fallback
FonteOf(tribunal, grauFmt) ==
    IF TruthyStr(tribunal) THEN <<tribunal, " - ", grauFmt>> ELSE FonteFallback

\* lines 119-125: a movement of the output
Movement(s) ==
    [ present |-> TRUE, id |-> s.step_id, data |-> OrNull(s.step_date),
      conteudo |-> OrNull(s.content) ]

\* mutant: the attachments are copied whenever the payload has them
AnexosOfAlways(lawsuit, includeAttachments) ==
    IF RD(lawsuit).attachments.isArray THEN RD(lawsuit).attachments.items ELSE << >>

\* lines 94-101
AnexosOf(lawsuit, includeAttachments) ==
    IF includeAttachments /\ RD(lawsuit).attachments.isArray
    THEN RD(lawsuit).attachments.items
    ELSE << >>

NoResponse ==
    [ code |-> 0, profile |-> "none", keys |-> {}, ok |-> FALSE, cnj |-> NullCnj,
      fonte |-> << >>, status |-> None, ultima_movimentacao_data |-> None,
      texto |-> None, ultima_movimentacao |-> NoMovement, movimentacoes |-> << >>,
      codigo |-> << >>, fase |-> None, instancia |-> JAbsent, anexos |-> << >>,
      erro |-> NoError, meta |-> NoMeta, lawsuit |-> NoLawsuit ]

\* buildFullPayload({cnj, lawsuit, error, meta}, {includeAttachments}), sent
\* with a status code; lawsuit is kept beside the body it was built from
buildFullPayload(code, cnj, lawsuit, error, meta, includeAttachments) ==
    LET steps == ArraySort(StepsOf(lawsuit))
        last == IF Len(steps) > 0 THEN Movement(steps[1]) ELSE NoMovement
    IN  [ code |-> code,
          profile |-> "full",
          keys |-> FullKeys,
          ok |-> ~error.present,
          cnj |-> cnj,
          fonte |-> FonteOf(TribunalOf(lawsuit), GrauFmt(InstanciaRaw(lawsuit))),
          status |-> StatusOf(lawsuit, steps),
          ultima_movimentacao_data |-> last.data,
          texto |-> last.conteudo,
          ultima_movimentacao |-> last,
          movimentacoes |-> [i \in 1..Len(steps) |-> Movement(steps[i])],
          codigo |-> IF RD(lawsuit).code # << >> THEN RD(lawsuit).code ELSE cnj,
          fase |-> OrNull(RD(lawsuit).phase),
          instancia |-> InstanciaRaw(lawsuit),
          anexos |-> AnexosOf(lawsuit, includeAttachments),
          erro |-> IF error.present
                   THEN Error(IF error.message # None THEN error.message
                              ELSE "Erro desconhecido no proxy")
                   ELSE NoError,
          meta |-> [ request_status |-> OrNull(meta.request_status),
                     is_partial |-> meta.is_partial,
                     waited_ms |-> meta.waited_ms,
                     attempts |-> meta.attempts,
                     message |-> OrNull(meta.message) ],
          lawsuit |-> lawsuit ]

\* the body of the minimal profile: the six fixed keys
MinimalBody(code, cnj, fonte, status, fase, conteudo, data, lawsuit) ==
    [ NoResponse EXCEPT
        !.code = code, !.profile = "minimal", !.keys = MinimalKeys,
        !.cnj = cnj, !.fonte = fonte, !.status = status, !.fase = fase,
        !.texto = conteudo, !.ultima_movimentacao_data = data,
        !.lawsuit = lawsuit ]

\* movimentacoes.js, lines 20-57: buildMinimalPayload({cnj, lawsuit})
buildMinimalPayload(code, cnj, lawsuit) ==
    LET steps == ArraySort(StepsOf(lawsuit))
        last == IF Len(steps) > 0 THEN Movement(steps[1]) ELSE NoMovement
    IN  MinimalBody(code, cnj,
                    FonteOf(TribunalOf(lawsuit), GrauFmt(InstanciaRaw(lawsuit))),
                    OrNull(StatusOf(lawsuit, steps)),
                    OrNull(RD(lawsuit).phase),
                    last.conteudo, last.data, lawsuit)

\* mutant: the literal is made of nulls throughout
MinimalNullsThroughout(code, cnj) ==
    MinimalBody(code, NullCnj, << >>, None, None, None, None, NoLawsuit)

\* movimentacoes.js, lines 124-131 and alike: the literal sent when there is
\* nothing to normalize
MinimalNulls(code, cnj) ==
    MinimalBody(code, cnj, FonteFallback, None, None, None, None, NoLawsuit)

-----------------------------------------------------------------------------
(* The poll orchestrator's decisions.                                      *)

\* x || requestStatus
TrackStatus(x, old) == IF x # None THEN x ELSE old

\* mutant: a failed getRequest sets the tracked status back to 'pending'
StatusAfterGetRequestForgets(job, old) ==
    IF job = "failed" THEN "pending" ELSE TrackStatus(job, old)

\* line 229: requestStatus after getRequest answered job, or threw ("failed")
StatusAfterGetRequest(job, old) == IF job = "failed" THEN old ELSE TrackStatus(job, old)

\* mutant: the main loop's test looks at the tracked status only
DetectsMainStatusOnly(rs, rec) == rs = "completed"

\* line 235: requestStatus === 'completed' || completed?.request_status === 'completed'
DetectsMain(rs, rec) == rs = "completed" \/ (rec.present /\ rec.request_status = "completed")

\* mutant: the grace loop looks at the record's own status only
DetectsGraceRecordOnly(rs, rec) == rec.present /\ rec.request_status = "completed"

\* line 249, the same test in the grace loop
DetectsGrace(rs, rec) == rs = "completed" \/ (rec.present /\ rec.request_status = "completed")

\* mutant: the grace phase ignores the retryOnPending flag
GraceConditionNoFlag(retry, rs, rec) ==
    ~(rs = "completed" \/ (rec.present /\ rec.request_status = "completed"))

\* line 241: retryOnPending && !(requestStatus === 'completed' || ...)
GraceCondition(retry, rs, rec) ==
    retry /\ ~(rs = "completed" \/ (rec.present /\ rec.request_status = "completed"))

\* mutant: the record's own request_status is not consulted
IsCompletedStatusOnly(rs, rec) == rec.present /\ rs = "completed"

\* mutant: a 'completed' status classifies without a record being held
IsCompletedNoRecord(rs, rec) ==
    rs = "completed" \/ (rec.present /\ rec.request_status = "completed")

\* line 257: completed && (requestStatus === 'completed' || ...)
IsCompleted(rs, rec) ==
    rec.present /\ (rs = "completed" \/ rec.request_status = "completed")

\* mutant: the break of line 235 is missing
AfterPageNoBreak(found) == "sleep"

\* lines 235-238: break out of the main loop, or go on to the sleep
AfterPage(found) == IF found THEN "graceGate" ELSE "sleep"

\* setTimeout(r, ms): a delay that is NaN or below 1 is taken as 1
SleepDelay(ms) == IF ms.nan \/ ms.v < 1 THEN 1 ELSE ms.v

-----------------------------------------------------------------------------
(* The handler.                                                            *)

NoCalls == [submit |-> 0, status |-> 0, list |-> 0, graceList |-> 0,
            sleeps |-> 0, graceSleeps |-> 0]

\* an iteration as the properties see it: the tracked status it began with,
\* what getRequest answered ("skipped": not asked), the page, the verdict
NoIter == [phase |-> "none", prev |-> None, job |-> None, page |-> EmptyPage,
           detected |-> FALSE]

NoHist ==
    [ submitOutcome |-> "none",     \* "httpError", "noId", "ok"
      returnedId |-> None,          \* the id the submission returned
      usedIds |-> {},               \* ids the poll calls were made with
      lastJob |-> None,             \* status of the last GetJobStatus response
      obsAttempt |-> 0,             \* first main iteration that saw 'completed'
      detAttempt |-> 0,             \* main iteration whose line-235 test held
      mainExit |-> "none",          \* "detected", "timedout"
      graceExit |-> "none",         \* "detected", "timedout"
      pollFailed |-> FALSE,         \* a poll call has failed
      graceEntered |-> FALSE,       \* the grace phase was entered
      firstRecordCompleted |-> FALSE, \* the first iteration's listing gave a
                                    \* record whose own status is 'completed'
      lastSerial |-> 0,             \* number of the latest listing call that
                                    \* returned a non-empty first page
      previous |-> NoResponse,      \* the body of an earlier normalization
      graceAt |-> 0,                \* the time the grace phase was entered
      iter |-> NoIter ]             \* the latest iteration's inputs and verdict

Init ==
    /\ pc = "start"
    /\ now = 0
    /\ query \in Queries
    /\ env \in [apiKey : BOOLEAN]
    /\ waitMs = NaN /\ pollInterval = NaN /\ graceMs = NaN /\ gracePollMs = NaN
    /\ retryOnPending = FALSE
    /\ requestId = None
    /\ start = 0 /\ graceStart = 0
    /\ attempts = 0 /\ completed = NoRecord /\ requestStatus = None
    /\ response = NoResponse
    /\ calls = NoCalls
    /\ hist = NoHist

\* mutant: the failure paths leave is_partial unset
PartialMetaUnflagged == NoMeta

PartialMeta == [NoMeta EXCEPT !.is_partial = TRUE]

PartialMessage == "Resposta parcial: a JUDIT ainda esta finalizando."
TimeoutMessage == "Nao foi possivel obter as movimentacoes dentro do tempo limite."
CnjRequiredMessage == "Parametro cnj e obrigatorio."

\* lines 229-236: would a main iteration that began with the tracked status
\* prev, whose getRequest answered job and whose listing answered page, break
MainIterationDetects(prev, job, page) ==
    /\ page.items > 0
    /\ DetectsMain(TrackStatus(page.request_status, StatusAfterGetRequest(job, prev)),
                   page.first)

\* line 197, and the catch's includeAttachments: false
IncludeAttachments == ParseFlag(query.includeAttachments)
WithAttachments == ParseFlag(query.withAttachments)

\* sendJson of a body that has nothing to normalize: buildFullPayload with a
\* null lawsuit, or the minimal profile's literal
SendFailure(code, cnj, error, meta, includeAttachments) ==
    IF query.path = "full"
    THEN buildFullPayload(code, cnj, NoLawsuit, error, meta, includeAttachments)
    ELSE MinimalNulls(code, cnj)

\* sendJson of a body normalized from the record held
SendNormalized(code, cnj, lawsuit, meta, includeAttachments) ==
    IF query.path = "full"
    THEN buildFullPayload(code, cnj, lawsuit, NoError, meta, includeAttachments)
    ELSE buildMinimalPayload(code, cnj, lawsuit)

\* mutant: the credential is checked before the identifier
HandlerStartKeyFirst ==
    /\ pc = "start"
    /\ waitMs' = ParseWaitMs(query.waitMs)
    /\ pollInterval' = ParsePollMs(query.pollMs)
    /\ graceMs' = ParseGraceMs(query.graceMs)
    /\ gracePollMs' = ParseGracePollMs(query.gracePollMs)
    /\ retryOnPending' = ParseFlag(query.retryOnPending)
    /\ IF ~env.apiKey
       THEN /\ response' = SendFailure(500, ParseCnj(query.cnj),
                                        Error("JUDIT_API_KEY nao configurada."),
                                        PartialMeta, IncludeAttachments)
            /\ pc' = "done"
       ELSE IF ParseCnj(query.cnj) = << >>
       THEN /\ response' = SendFailure(400, NullCnj, Error(CnjRequiredMessage),
                                        PartialMeta, IncludeAttachments)
            /\ pc' = "done"
       ELSE /\ pc' = "submit"
            /\ UNCHANGED response
    /\ UNCHANGED << now, query, env, requestId, start, graceStart, attempts,
                    completed, requestStatus, calls, hist >>

\* lines 189-214: parse the query, validate cnj and the credential
HandlerStart ==
    /\ pc = "start"
    /\ waitMs' = ParseWaitMs(query.waitMs)
    /\ pollInterval' = ParsePollMs(query.pollMs)
    /\ graceMs' = ParseGraceMs(query.graceMs)
    /\ gracePollMs' = ParseGracePollMs(query.gracePollMs)
    /\ retryOnPending' = ParseFlag(query.retryOnPending)
    /\ IF ParseCnj(query.cnj) = << >>
       THEN /\ response' = SendFailure(400, NullCnj, Error(CnjRequiredMessage),
                                        PartialMeta, IncludeAttachments)
            /\ pc' = "done"
       ELSE IF ~env.apiKey
       THEN /\ response' = SendFailure(500, ParseCnj(query.cnj),
                                        Error("JUDIT_API_KEY nao configurada."),
                                        PartialMeta, IncludeAttachments)
            /\ pc' = "done"
       ELSE /\ pc' = "submit"
            /\ UNCHANGED response
    /\ UNCHANGED << now, query, env, requestId, start, graceStart, attempts,
                    completed, requestStatus, calls, hist >>


\* lines 289-294: the catch of the handler
CatchError(message) ==
    SendFailure(500, NullCnj,
                Error(IF message # None THEN message ELSE "Erro inesperado no proxy"),
                PartialMeta, FALSE)

\* lines 160-163 and 289-294: createRequest throws on a non-2xx answer
CreateRequestFails ==
    /\ pc = "submit"
    /\ \E d \in CallDurations : now' = now + d
    /\ calls' = [calls EXCEPT !.submit = @ + 1]
    /\ hist' = [hist EXCEPT !.submitOutcome = "httpError"]
    /\ response' = CatchError("Falha ao criar requisicao na JUDIT")
    /\ pc' = "done"
    /\ UNCHANGED << query, env, waitMs, pollInterval, graceMs, gracePollMs,
                    retryOnPending, requestId, start, graceStart, attempts,
                    completed, requestStatus >>

\* mutant: the missing request_id is not checked, polling starts
CreateRequestNoIdPolls ==
    /\ pc = "submit"
    /\ \E d \in CallDurations : now' = now + d
    /\ calls' = [calls EXCEPT !.submit = @ + 1]
    /\ hist' = [hist EXCEPT !.submitOutcome = "noId"]
    /\ start' = now'
    /\ attempts' = 0 /\ completed' = NoRecord /\ requestStatus' = "pending"
    /\ pc' = "loopTest"
    /\ UNCHANGED << query, env, waitMs, pollInterval, graceMs, gracePollMs,
                    retryOnPending, requestId, graceStart, response >>

\* lines 216-222: the answer carries no request_id
CreateRequestNoId ==
    /\ pc = "submit"
    /\ \E d \in CallDurations : now' = now + d
    /\ calls' = [calls EXCEPT !.submit = @ + 1]
    /\ hist' = [hist EXCEPT !.submitOutcome = "noId"]
    /\ response' = SendFailure(502, ParseCnj(query.cnj),
                               Error("request_id nao retornado."), PartialMeta,
                               IncludeAttachments)
    /\ pc' = "done"
    /\ UNCHANGED << query, env, waitMs, pollInterval, graceMs, gracePollMs,
                    retryOnPending, requestId, start, graceStart, attempts,
                    completed, requestStatus >>

\* lines 216-225: the job id is kept, the poll state is set up
CreateRequestOk ==
    /\ pc = "submit"
    /\ \E d \in CallDurations, id \in JobIds :
          /\ now' = now + d
          /\ requestId' = id
          /\ hist' = [hist EXCEPT !.submitOutcome = "ok", !.returnedId = id]
    /\ calls' = [calls EXCEPT !.submit = @ + 1]
    /\ start' = now'
    /\ attempts' = 0 /\ completed' = NoRecord /\ requestStatus' = "pending"
    /\ pc' = "loopTest"
    /\ UNCHANGED << query, env, waitMs, pollInterval, graceMs, gracePollMs,
                    retryOnPending, graceStart, response >>

\* lines 227-228: the deadline test holds, an iteration starts
MainLoopEnter ==
    /\ pc = "loopTest"
    /\ Lt(Num(now - start), waitMs)
    /\ attempts' = attempts + 1
    /\ pc' = "getRequest"
    /\ UNCHANGED << now, query, env, waitMs, pollInterval, graceMs, gracePollMs,
                    retryOnPending, requestId, start, graceStart, completed,
                    requestStatus, response, calls, hist >>

\* mutant: the deadline test does not end the loop, it spins
MainLoopTimedOutSpins ==
    /\ pc = "loopTest"
    /\ ~Lt(Num(now - start), waitMs)
    /\ UNCHANGED vars

\* line 227: the deadline has passed
MainLoopTimedOut ==
    /\ pc = "loopTest"
    /\ ~Lt(Num(now - start), waitMs)
    /\ hist' = [hist EXCEPT !.mainExit = "timedout"]
    /\ pc' = "graceGate"
    /\ UNCHANGED << now, query, env, waitMs, pollInterval, graceMs, gracePollMs,
                    retryOnPending, requestId, start, graceStart, attempts,
                    completed, requestStatus, response, calls >>

\* line 229: getRequest throws, the catch swallows it
GetRequestFails ==
    /\ pc = "getRequest"
    /\ \E d \in CallDurations : now' = now + d
    /\ calls' = [calls EXCEPT !.status = @ + 1]
    /\ requestStatus' = StatusAfterGetRequest("failed", requestStatus)
    /\ hist' = [hist EXCEPT !.usedIds = @ \cup {requestId},
                            !.pollFailed = TRUE,
                            !.iter = [NoIter EXCEPT !.phase = "status",
                                         !.prev = requestStatus, !.job = "failed"]]
    /\ pc' = "getResponses"
    /\ UNCHANGED << query, env, waitMs, pollInterval, graceMs, gracePollMs,
                    retryOnPending, requestId, start, graceStart, attempts,
                    completed, response >>

\* line 229: requestStatus = r?.status || requestStatus
GetRequestOk ==
    /\ pc = "getRequest"
    /\ \E d \in CallDurations, st \in StatusValues \cup {None} :
          /\ now' = now + d
          /\ requestStatus' = StatusAfterGetRequest(st, requestStatus)
          /\ hist' = [hist EXCEPT
                        !.usedIds = @ \cup {requestId},
                        !.lastJob = st,
                        !.obsAttempt = IF @ = 0 /\ st = "completed" THEN attempts ELSE @,
                        !.iter = [NoIter EXCEPT !.phase = "status",
                                     !.prev = requestStatus, !.job = st]]
    /\ calls' = [calls EXCEPT !.status = @ + 1]
    /\ pc' = "getResponses"
    /\ UNCHANGED << query, env, waitMs, pollInterval, graceMs, gracePollMs,
                    retryOnPending, requestId, start, graceStart, attempts,
                    completed, response >>

\* mutant: the throw of getResponses reaches the handler's catch
GetResponsesFailsAborts ==
    /\ pc = "getResponses"
    /\ \E d \in CallDurations : now' = now + d
    /\ calls' = [calls EXCEPT !.list = @ + 1]
    /\ hist' = [hist EXCEPT !.usedIds = @ \cup {requestId}, !.pollFailed = TRUE]
    /\ response' = CatchError("Falha ao listar responses na JUDIT")
    /\ pc' = "done"
    /\ UNCHANGED << query, env, waitMs, pollInterval, graceMs, gracePollMs,
                    retryOnPending, requestId, start, graceStart, attempts,
                    completed, requestStatus >>

\* lines 230-237: getResponses throws, the catch swallows it
GetResponsesFails ==
    /\ pc = "getResponses"
    /\ \E d \in CallDurations : now' = now + d
    /\ calls' = [calls EXCEPT !.list = @ + 1]
    /\ hist' = [hist EXCEPT !.usedIds = @ \cup {requestId},
                            !.pollFailed = TRUE,
                            !.iter = [@ EXCEPT !.phase = "main"]]
    /\ pc' = "sleep"
    /\ UNCHANGED << query, env, waitMs, pollInterval, graceMs, gracePollMs,
                    retryOnPending, requestId, start, graceStart, attempts,
                    completed, requestStatus, response >>

\* mutant: an empty first page forgets the record held
GetResponsesEmptyForgets ==
    /\ pc = "getResponses"
    /\ \E d \in CallDurations : now' = now + d
    /\ calls' = [calls EXCEPT !.list = @ + 1]
    /\ hist' = [hist EXCEPT !.usedIds = @ \cup {requestId},
                            !.iter = [@ EXCEPT !.phase = "main"]]
    /\ pc' = "sleep"
    /\ completed' = NoRecord
    /\ UNCHANGED << query, env, waitMs, pollInterval, graceMs, gracePollMs,
                    retryOnPending, requestId, start, graceStart, attempts,
                    requestStatus, response >>

\* lines 231-232: page_data is no array or is empty
GetResponsesEmpty ==
    /\ pc = "getResponses"
    /\ \E d \in CallDurations : now' = now + d
    /\ calls' = [calls EXCEPT !.list = @ + 1]
    /\ hist' = [hist EXCEPT !.usedIds = @ \cup {requestId},
                            !.iter = [@ EXCEPT !.phase = "main"]]
    /\ pc' = "sleep"
    /\ UNCHANGED << query, env, waitMs, pollInterval, graceMs, gracePollMs,
                    retryOnPending, requestId, start, graceStart, attempts,
                    completed, requestStatus, response >>

\* lines 232-236: a non-empty first page
GetResponsesPage ==
    /\ pc = "getResponses"
    /\ \E d \in CallDurations, page \in Pages(calls.list + calls.graceList + 1) \ {EmptyPage} :
          LET rs == TrackStatus(page.request_status, requestStatus)
              found == DetectsMain(rs, page.first)
          IN  /\ now' = now + d
              /\ completed' = page.first
              /\ requestStatus' = rs
              /\ pc' = AfterPage(found)
              /\ hist' = [hist EXCEPT
                    !.usedIds = @ \cup {requestId},
                    !.obsAttempt = IF @ = 0 /\ page.first.request_status = "completed"
                                   THEN attempts ELSE @,
                    !.detAttempt = IF found THEN attempts ELSE @,
                    !.mainExit = IF found THEN "detected" ELSE @,
                    !.lastSerial = calls.list + calls.graceList + 1,
                    !.firstRecordCompleted =
                        attempts = 1 /\ page.first.request_status = "completed",
                    !.iter = [@ EXCEPT !.phase = "main", !.page = page,
                                       !.detected = found]]
    /\ calls' = [calls EXCEPT !.list = @ + 1]
    /\ UNCHANGED << query, env, waitMs, pollInterval, graceMs, gracePollMs,
                    retryOnPending, requestId, start, graceStart, attempts,
                    response >>

\* mutant: the interval grows with every sleep
SleepBackoff ==
    /\ pc = "sleep"
    /\ now' = now + SleepDelay(pollInterval) * (calls.sleeps + 1)
    /\ calls' = [calls EXCEPT !.sleeps = @ + 1]
    /\ pc' = "loopTest"
    /\ UNCHANGED << query, env, waitMs, pollInterval, graceMs, gracePollMs,
                    retryOnPending, requestId, start, graceStart, attempts,
                    completed, requestStatus, response, hist >>

\* line 238: await sleep(pollInterval)
Sleep ==
    /\ pc = "sleep"
    /\ now' = now + SleepDelay(pollInterval)
    /\ calls' = [calls EXCEPT !.sleeps = @ + 1]
    /\ pc' = "loopTest"
    /\ UNCHANGED << query, env, waitMs, pollInterval, graceMs, gracePollMs,
                    retryOnPending, requestId, start, graceStart, attempts,
                    completed, requestStatus, response, hist >>


\* mutant: the grace phase submits the job again
GraceEnterResubmits ==
    /\ pc = "graceGate"
    /\ GraceCondition(retryOnPending, requestStatus, completed)
    /\ graceStart' = now
    /\ \E id \in JobIds : requestId' = id
    /\ calls' = [calls EXCEPT !.submit = @ + 1]
    /\ hist' = [hist EXCEPT !.graceEntered = TRUE, !.graceAt = now]
    /\ pc' = "graceTest"
    /\ UNCHANGED << now, query, env, waitMs, pollInterval, graceMs, gracePollMs,
                    retryOnPending, start, attempts, completed,
                    requestStatus, response >>

\* mutant: the grace budget is measured from the start of polling
GraceEnterFromStart ==
    /\ pc = "graceGate"
    /\ GraceCondition(retryOnPending, requestStatus, completed)
    /\ graceStart' = start
    /\ hist' = [hist EXCEPT !.graceEntered = TRUE, !.graceAt = now]
    /\ pc' = "graceTest"
    /\ UNCHANGED << now, query, env, waitMs, pollInterval, graceMs, gracePollMs,
                    retryOnPending, requestId, start, attempts, completed,
                    requestStatus, response, calls >>

\* lines 241-242: the grace phase starts
GraceEnter ==
    /\ pc = "graceGate"
    /\ GraceCondition(retryOnPending, requestStatus, completed)
    /\ graceStart' = now
    /\ hist' = [hist EXCEPT !.graceEntered = TRUE, !.graceAt = now]
    /\ pc' = "graceTest"
    /\ UNCHANGED << now, query, env, waitMs, pollInterval, graceMs, gracePollMs,
                    retryOnPending, requestId, start, attempts, completed,
                    requestStatus, response, calls >>

\* line 241: no grace phase
GraceSkip ==
    /\ pc = "graceGate"
    /\ ~GraceCondition(retryOnPending, requestStatus, completed)
    /\ pc' = "classify"
    /\ UNCHANGED << now, query, env, waitMs, pollInterval, graceMs, gracePollMs,
                    retryOnPending, requestId, start, graceStart, attempts,
                    completed, requestStatus, response, calls, hist >>

\* mutant: a grace iteration counts as an attempt
GraceLoopEnterCounts ==
    /\ pc = "graceTest"
    /\ Lt(Num(now - graceStart), graceMs)
    /\ attempts' = attempts + 1
    /\ pc' = "graceResponses"
    /\ UNCHANGED << now, query, env, waitMs, pollInterval, graceMs, gracePollMs,
                    retryOnPending, requestId, start, graceStart,
                    completed, requestStatus, response, calls, hist >>

\* line 243: the grace deadline test holds, an iteration starts
GraceLoopEnter ==
    /\ pc = "graceTest"
    /\ Lt(Num(now - graceStart), graceMs)
    /\ pc' = "graceResponses"
    /\ UNCHANGED << now, query, env, waitMs, pollInterval, graceMs, gracePollMs,
                    retryOnPending, requestId, start, graceStart, attempts,
                    completed, requestStatus, response, calls, hist >>

\* line 243: the grace deadline has passed
GraceLoopTimedOut ==
    /\ pc = "graceTest"
    /\ ~Lt(Num(now - graceStart), graceMs)
    /\ hist' = [hist EXCEPT !.graceExit = "timedout"]
    /\ pc' = "classify"
    /\ UNCHANGED << now, query, env, waitMs, pollInterval, graceMs, gracePollMs,
                    retryOnPending, requestId, start, graceStart, attempts,
                    completed, requestStatus, response, calls >>

\* what getRequest can answer: a status, no status, or a throw
JobAnswers == StatusValues \cup {None, "failed"}

\* lines 244-251: getResponses throws, the catch swallows it
GraceGetResponsesFails ==
    /\ pc = "graceResponses"
    /\ \E d \in CallDurations : now' = now + d
    /\ calls' = [calls EXCEPT !.graceList = @ + 1]
    /\ hist' = [hist EXCEPT !.usedIds = @ \cup {requestId},
                            !.pollFailed = TRUE,
                            !.iter = [NoIter EXCEPT !.phase = "grace",
                                         !.prev = requestStatus, !.job = "skipped"]]
    /\ pc' = "graceSleep"
    /\ UNCHANGED << query, env, waitMs, pollInterval, graceMs, gracePollMs,
                    retryOnPending, requestId, start, graceStart, attempts,
                    completed, requestStatus, response >>

\* lines 245-246: page_data is no array or is empty
GraceGetResponsesEmpty ==
    /\ pc = "graceResponses"
    /\ \E d \in CallDurations : now' = now + d
    /\ calls' = [calls EXCEPT !.graceList = @ + 1]
    /\ hist' = [hist EXCEPT !.usedIds = @ \cup {requestId},
                            !.iter = [NoIter EXCEPT !.phase = "grace",
                                         !.prev = requestStatus, !.job = "skipped"]]
    /\ pc' = "graceSleep"
    /\ UNCHANGED << query, env, waitMs, pollInterval, graceMs, gracePollMs,
                    retryOnPending, requestId, start, graceStart, attempts,
                    completed, requestStatus, response >>

\* mutant: the grace loop keeps the record the main loop left
GraceGetResponsesPageKeepsRecord ==
    /\ pc = "graceResponses"
    /\ \E d \in CallDurations, page \in Pages(calls.list + calls.graceList + 1) \ {EmptyPage} :
          LET rs == TrackStatus(page.request_status, requestStatus)
              found == DetectsGrace(rs, page.first)
          IN  /\ now' = now + d
              /\ completed' = IF completed.present THEN completed ELSE page.first
              /\ requestStatus' = rs
              /\ pc' = IF found THEN "classify" ELSE "graceSleep"
              /\ hist' = [hist EXCEPT
                    !.usedIds = @ \cup {requestId},
                    !.lastSerial = calls.list + calls.graceList + 1,
                    !.graceExit = IF found THEN "detected" ELSE @,
                    !.iter = [phase |-> "grace", prev |-> requestStatus,
                              job |-> "skipped", page |-> page, detected |-> found]]
    /\ calls' = [calls EXCEPT !.graceList = @ + 1]
    /\ UNCHANGED << query, env, waitMs, pollInterval, graceMs, gracePollMs,
                    retryOnPending, requestId, start, graceStart, attempts,
                    response >>

\* lines 246-250: a non-empty first page
GraceGetResponsesPage ==
    /\ pc = "graceResponses"
    /\ \E d \in CallDurations, page \in Pages(calls.list + calls.graceList + 1) \ {EmptyPage} :
          LET rs == TrackStatus(page.request_status, requestStatus)
              found == DetectsGrace(rs, page.first)
          IN  /\ now' = now + d
              /\ completed' = page.first
              /\ requestStatus' = rs
              /\ pc' = IF found THEN "classify" ELSE "graceSleep"
              /\ hist' = [hist EXCEPT
                    !.usedIds = @ \cup {requestId},
                    !.lastSerial = calls.list + calls.graceList + 1,
                    !.graceExit = IF found THEN "detected" ELSE @,
                    !.iter = [phase |-> "grace", prev |-> requestStatus,
                              job |-> "skipped", page |-> page, detected |-> found]]
    /\ calls' = [calls EXCEPT !.graceList = @ + 1]
    /\ UNCHANGED << query, env, waitMs, pollInterval, graceMs, gracePollMs,
                    retryOnPending, requestId, start, graceStart, attempts,
                    response >>

\* line 252: await sleep(gracePollMs)
GraceSleep ==
    /\ pc = "graceSleep"
    /\ now' = now + SleepDelay(gracePollMs)
    /\ calls' = [calls EXCEPT !.graceSleeps = @ + 1]
    /\ pc' = "graceTest"
    /\ UNCHANGED << query, env, waitMs, pollInterval, graceMs, gracePollMs,
                    retryOnPending, requestId, start, graceStart, attempts,
                    completed, requestStatus, response, hist >>

\* lines 259-267: the body of the 200
CompletedBody ==
    SendNormalized(200, ParseCnj(query.cnj), LawsuitOf(completed),
                   [ request_status |-> "completed", is_partial |-> FALSE,
                     waited_ms |-> now - start, attempts |-> attempts,
                     message |-> None ],
                   IncludeAttachments)

\* lines 270-279: the body of the partial 202
PartialBody ==
    SendNormalized(202, ParseCnj(query.cnj), LawsuitOf(completed),
                   [ request_status |->
                         TrackStatus(requestStatus,
                             TrackStatus(completed.request_status, "pending")),
                     is_partial |-> TRUE,
                     waited_ms |-> now - start, attempts |-> attempts,
                     message |-> PartialMessage ],
                   IncludeAttachments)

\* mutant: the record's own list is sorted where it stands
InputAfterCallSorted(record) ==
    [ record EXCEPT
        !.top.steps.items = ArraySort(@),
        !.response_data.top.steps.items = ArraySort(@),
        !.response_data.rd.steps.items = ArraySort(@) ]

\* lines 22-27: the record after a call of the normalizer.  The step list
\* is spread into a new array before it is sorted and nothing else is
\* written, so the record is as it was
InputAfterCall(record) == record

\* lines 256-268: 200, the completed result
RespondCompleted ==
    /\ pc = "classify"
    /\ IsCompleted(requestStatus, completed)
    /\ response' = CompletedBody
    /\ completed' = InputAfterCall(completed)
    /\ pc' = "done"
    /\ UNCHANGED << now, query, env, waitMs, pollInterval, graceMs, gracePollMs,
                    retryOnPending, requestId, start, graceStart, attempts,
                    requestStatus, calls, hist >>

\* lines 270-280: 202, a record is held but completion was not confirmed
RespondPartial ==
    /\ pc = "classify"
    /\ ~IsCompleted(requestStatus, completed)
    /\ completed.present
    /\ response' = PartialBody
    /\ completed' = InputAfterCall(completed)
    /\ pc' = "done"
    /\ UNCHANGED << now, query, env, waitMs, pollInterval, graceMs, gracePollMs,
                    retryOnPending, requestId, start, graceStart, attempts,
                    requestStatus, calls, hist >>

\* mutant: the no-data answer is sent like a partial one, without an error
RespondTimeoutNoDataNoError ==
    /\ pc = "classify"
    /\ ~IsCompleted(requestStatus, completed)
    /\ ~completed.present
    /\ response' = SendNormalized(202, ParseCnj(query.cnj), NoLawsuit,
                      [ request_status |-> requestStatus, is_partial |-> TRUE,
                        waited_ms |-> now - start, attempts |-> attempts,
                        message |-> TimeoutMessage ],
                      IncludeAttachments)
    /\ pc' = "done"
    /\ UNCHANGED << now, query, env, waitMs, pollInterval, graceMs, gracePollMs,
                    retryOnPending, requestId, start, graceStart, attempts,
                    completed, requestStatus, calls, hist >>

\* lines 282-287: 202, no record within the deadline
RespondTimeoutNoData ==
    /\ pc = "classify"
    /\ ~IsCompleted(requestStatus, completed)
    /\ ~completed.present
    /\ response' = SendFailure(202, ParseCnj(query.cnj), Error(TimeoutMessage),
                      [ request_status |-> requestStatus, is_partial |-> TRUE,
                        waited_ms |-> now - start, attempts |-> attempts,
                        message |-> None ],
                      IncludeAttachments)
    /\ pc' = "done"
    /\ UNCHANGED << now, query, env, waitMs, pollInterval, graceMs, gracePollMs,
                    retryOnPending, requestId, start, graceStart, attempts,
                    completed, requestStatus, calls, hist >>

Next ==
    \/ HandlerStart
    \/ CreateRequestFails \/ CreateRequestNoId \/ CreateRequestOk
    \/ MainLoopEnter \/ MainLoopTimedOut
    \/ GetRequestFails \/ GetRequestOk
    \/ GetResponsesFails \/ GetResponsesEmpty \/ GetResponsesPage
    \/ Sleep
    \/ GraceEnter \/ GraceSkip
    \/ GraceLoopEnter \/ GraceLoopTimedOut
    \/ GraceGetResponsesFails \/ GraceGetResponsesEmpty \/ GraceGetResponsesPage
    \/ GraceSleep
    \/ RespondCompleted \/ RespondPartial \/ RespondTimeoutNoData

Spec == Init /\ [][Next]_vars

\* every upstream call returns and every timer fires: a step that can be
\* taken is taken
\* the requests whose main budget is at most a second
LiveQueries == {q \in Queries : q.waitMs # Str(<<"4", "0", "0", "0">>)}

InitLive == Init /\ query \in LiveQueries

SpecLive == InitLive /\ [][Next]_vars /\ WF_vars(Next)

-----------------------------------------------------------------------------
(* The normalizer alone, over payloads richer than the polls of Spec draw:  *)
(* the handler's last step, entered with a record of any shape.            *)

MaxSteps == 3

\* the step lists of up to MaxSteps entries, numbered in input order
StepLists ==
    UNION { { [i \in 1..n |-> Step(i, dates[i], "c")] : dates \in [1..n -> StepDates] } :
            n \in 0..MaxSteps }

InstanceValues ==
    { JAbsent, JNum(0), JNum(1), JNum(2), JNum(3),
      JStr(""), JStr("1"), JStr("2"), JStr("3") }
TribunalValues == {None, "", "TJBA"}

\* lawsuits that differ in their steps, and lawsuits that differ in the
\* instance and tribunal of the two levels
NormLawsuits ==
    { Lawsuit(Obj(<<"#", "1">>, Array(steps), None, "TJBA", JStr("1"), None,
                  Array(<<8>>)),
              NoObj) : steps \in StepLists }
    \cup
    { Lawsuit(top, Obj(<< >>, NoArray, None, tribunal, instance, None, NoArray)) :
        top \in { Obj(<<"#", "1">>, NoArray, None, None, JAbsent, None, NoArray),
                  Obj(<<"#", "1">>, NoArray, None, "TRF1", JNum(2), None, NoArray) },
        tribunal \in TribunalValues, instance \in InstanceValues }

NormQueries == { q \in Queries : q.cnj = Cnj /\ q.waitMs = Str(<<"4", "0", "0", "0">>) }

InitNorm ==
    /\ pc = "classify"
    /\ now = 0
    /\ query \in NormQueries
    /\ env = [apiKey |-> TRUE]
    /\ waitMs = ParseWaitMs(query.waitMs)
    /\ pollInterval = ParsePollMs(query.pollMs)
    /\ graceMs = ParseGraceMs(query.graceMs)
    /\ gracePollMs = ParseGracePollMs(query.gracePollMs)
    /\ retryOnPending = ParseFlag(query.retryOnPending)
    /\ requestId \in JobIds
    /\ start = 0 /\ graceStart = 0
    /\ attempts = 1
    /\ \E rs \in StatusValues, lawsuit \in NormLawsuits :
          completed = [ present |-> TRUE, request_status |-> rs, serial |-> 1,
                        top |-> Obj(<<"#", "1">>, NoArray, None, None, JAbsent, None,
                                    NoArray),
                        response_data |-> lawsuit ]
    /\ requestStatus = "pending"
    /\ response = NoResponse
    /\ calls = [NoCalls EXCEPT !.submit = 1, !.status = 1, !.list = 1]
    /\ hist = [NoHist EXCEPT !.submitOutcome = "ok", !.returnedId = requestId,
                             !.usedIds = {requestId}, !.lastSerial = 1,
                             !.iter = [NoIter EXCEPT !.phase = "main",
                                          !.page = [items |-> 1, first |-> completed,
                                                    request_status |-> None]]]

\* lines 18-141 once more: the normalizer is called again with the record,
\* the meta and the flags of the call that built the response
NormalizeAgain ==
    /\ pc = "done"
    /\ hist.previous = NoResponse
    /\ hist' = [hist EXCEPT !.previous = response]
    /\ response' = IF response.code = 200 THEN CompletedBody ELSE PartialBody
    /\ completed' = InputAfterCall(completed)
    /\ pc' = "again"
    /\ UNCHANGED << now, query, env, waitMs, pollInterval, graceMs, gracePollMs,
                    retryOnPending, requestId, start, graceStart, attempts,
                    requestStatus, calls >>

NextNorm == RespondCompleted \/ RespondPartial \/ NormalizeAgain

SpecNorm == InitNorm /\ [][NextNorm]_vars

-----------------------------------------------------------------------------
(* Properties.                                                             *)

GotJobId == requestId # None
Done == pc = "done"
MainPcs == {"loopTest", "getRequest", "getResponses", "sleep"}
GracePcs == {"graceTest", "graceResponses", "graceSleep"}

\* a status signal of the final poll state says 'completed'
SignalCompleted ==
    \/ requestStatus = "completed"
    \/ completed.present /\ completed.request_status = "completed"

\* the three outcomes, as the body tells them: the full profile by ok, meta
\* and erro; the minimal profile, which has none of these, by the status,
\* which a normalized body always carries and the literal of nulls never
FullOut == response.profile = "full"
MinimalOut == response.profile = "minimal"
CompletedOut ==
    /\ response.code = 200
    /\ FullOut => response.ok /\ ~response.meta.is_partial
PartialOut ==
    /\ response.code = 202
    /\ FullOut => response.ok /\ response.meta.message = PartialMessage
    /\ MinimalOut => response.status # None
TimeoutNoDataOut ==
    /\ response.code = 202
    /\ FullOut => ~response.ok /\ response.erro.message = TimeoutMessage
    /\ MinimalOut => response.status = None

\* C1: an invocation that got a job id ends Completed (200) exactly when a
\* record is held and a status signal (the tracked status or the record's own
\* request_status) is 'completed', PartialResult (202) exactly when a record
\* is held and neither signal is, TimeoutNoData (202) exactly when no record
\* is held; exactly one of the three outcomes is given.
C1_TerminalClassification ==
    (Done /\ GotJobId) =>
        /\ CompletedOut <=> (completed.present /\ SignalCompleted)
        /\ PartialOut <=> (completed.present /\ ~SignalCompleted)
        /\ TimeoutNoDataOut <=> ~completed.present
        /\ Cardinality({o \in {"c", "p", "t"} :
                           \/ o = "c" /\ CompletedOut
                           \/ o = "p" /\ PartialOut
                           \/ o = "t" /\ TimeoutNoDataOut}) = 1
        /\ CompletedOut => response.lawsuit = LawsuitOf(completed)
        /\ PartialOut => response.lawsuit = LawsuitOf(completed)

\* C1 witness: a 200 that rests on the record's own request_status alone,
\* given after the grace phase
C1_Witness ==
    /\ Done /\ GotJobId /\ CompletedOut
    /\ requestStatus # "completed"
    /\ hist.graceEntered

\* C2 as claimed: once a main iteration has seen 'completed' from getRequest
\* or from the fetched record, the main loop neither sleeps nor starts
\* another iteration.
C2_ExitsOnAnyCompletedSignal ==
    hist.obsAttempt # 0 =>
        /\ attempts = hist.obsAttempt
        /\ pc # "sleep"
        /\ calls.sleeps < hist.obsAttempt

\* C2 amended: once a main iteration's listing returned a non-empty first
\* page and the test of line 235 held on the tracked status (after the
\* listing's own request_status replaced it) and the record, the main loop
\* is left at once: no sleep and no further getRequest or getResponses call
\* of the main loop follows.
C2_ExitsOnDetection ==
    hist.detAttempt # 0 =>
        /\ pc \notin MainPcs
        /\ attempts = hist.detAttempt
        /\ calls.sleeps = hist.detAttempt - 1
        /\ calls.status = hist.detAttempt
        /\ calls.list = hist.detAttempt

\* C2 witness: the second iteration detected completion and the invocation
\* has answered
C2_Witness == Done /\ hist.detAttempt = 2 /\ hist.mainExit = "detected"

\* C3 as claimed: with a record held, a last getRequest answer of 'completed'
\* gives 200 whatever the listing carried, and a record whose request_status
\* is 'completed' gives 200 whatever getRequest said.
C3_EitherSignalSuffices ==
    (Done /\ GotJobId /\ completed.present) =>
        /\ hist.lastJob = "completed" => CompletedOut
        /\ completed.request_status = "completed" => CompletedOut

\* C4: createRequest is called at most once, and every getRequest and
\* getResponses call, of the main loop and of the grace loop, is made with
\* the id that submission returned.
C4_SingleSubmission ==
    /\ calls.submit <= 1
    /\ hist.usedIds \subseteq {hist.returnedId}
    /\ hist.usedIds # {} => (GotJobId /\ requestId = hist.returnedId)
    /\ (calls.status + calls.list + calls.graceList > 0) => hist.usedIds # {}

\* C4 witness: both loops have polled
C4_Witness ==
    /\ calls.status > 1 /\ calls.list > 1 /\ calls.graceList > 1
    /\ hist.usedIds = {requestId}

\* C5: a poll call that fails does not end its loop and does not show in the
\* outcome: the main loop is left only by detection or past its deadline,
\* the grace loop likewise, and an invocation that got a job id answers 200
\* or 202.
C5_PollFailuresAbsorbed ==
    GotJobId =>
        /\ Done => response.code \in {200, 202}
        /\ pc \notin MainPcs =>
              \/ hist.detAttempt # 0
              \/ ~Lt(Num(now - start), waitMs)
        /\ (hist.graceEntered /\ pc \in {"classify", "done"}) =>
              \/ DetectsGrace(requestStatus, completed)
              \/ ~Lt(Num(now - graceStart), graceMs)

\* C5 witness: poll calls failed, the loop went on and a later iteration
\* completed the invocation
C5_Witness ==
    /\ Done /\ hist.pollFailed /\ response.code = 200
    /\ calls.list + calls.graceList >= 2

\* C6 as claimed: a non-2xx answer to the submission ends the invocation
\* with 502 after that one submission.
C6_SubmitErrorIs502 ==
    hist.submitOutcome = "httpError" =>
        Done /\ response.code = 502 /\ calls.submit = 1

\* C7: a submission answered without a job id ends the invocation with 502:
\* no getRequest, no getResponses, no sleep and no second submission.
C7_NoJobIdIsFatal ==
    hist.submitOutcome = "noId" =>
        /\ Done /\ response.code = 502 /\ ~response.ok
        /\ calls = [NoCalls EXCEPT !.submit = 1]
        /\ hist.usedIds = {}

\* C7 witness: the submission was answered without a job id
C7_Witness == hist.submitOutcome = "noId" /\ Done /\ ~GotJobId

\* C8: a grace iteration, grace listing call or grace sleep happens only
\* with retryOnPending set and after the main loop timed out (not after it
\* detected completion).
C8_GraceOnlyAfterTimeout ==
    (pc \in GracePcs \/ calls.graceList > 0 \/ calls.graceSleeps > 0
        \/ hist.graceEntered) =>
        /\ retryOnPending
        /\ asBool(query.retryOnPending)
        /\ hist.mainExit = "timedout"
        /\ hist.detAttempt = 0

\* C8 witness: the grace loop has listed and slept after a main loop that
\* iterated
C8_Witness == calls.graceSleeps > 0 /\ calls.graceList > 0 /\ attempts > 0

\* C9 as claimed: whatever the job-status endpoint would answer, a grace
\* iteration detects completion exactly when a main iteration with the same
\* tracked status, the same job-status answer and the same listing would.
C9_GraceDetectsAsMain ==
    hist.iter.phase = "grace" =>
        \A j \in JobAnswers :
            hist.iter.detected =
                MainIterationDetects(hist.iter.prev, j, hist.iter.page)

\* C9 amended: the grace loop applies the main loop's test to the tracked
\* status and the listing, but does not ask the job-status endpoint: a grace
\* iteration detects completion exactly when a main iteration with the same
\* tracked status and the same listing would whose getRequest call failed
\* (left the tracked status as it was).
C9_GraceDetectsAsMainWithoutJobStatus ==
    /\ hist.iter.phase = "grace" =>
          hist.iter.detected =
              MainIterationDetects(hist.iter.prev, "failed", hist.iter.page)
    /\ hist.iter.phase = "main" =>
          hist.iter.detected =
              MainIterationDetects(hist.iter.prev, hist.iter.job, hist.iter.page)

\* C9 witness: a grace iteration detected completion from the listing's own
\* request_status, the record not saying 'completed'
C9_Witness ==
    /\ hist.iter.phase = "grace" /\ hist.iter.detected
    /\ hist.iter.page.first.present
    /\ hist.iter.page.first.request_status # "completed"

\* C10 as claimed: for every query, waitMs is a number at most 60000, pollMs
\* lies in [750,5000], graceMs is at most 15000, gracePollMs lies in
\* [500,3000], and absent parameters give 30000, 1500, 5000 and 800.
C10_ClampsHold ==
    pc # "start" =>
        /\ Le(waitMs, Num(60000))
        /\ Le(Num(750), pollInterval) /\ Le(pollInterval, Num(5000))
        /\ Le(graceMs, Num(15000))
        /\ Le(Num(500), gracePollMs) /\ Le(gracePollMs, Num(3000))
        /\ ~query.waitMs.present => waitMs = Num(30000)
        /\ ~query.pollMs.present => pollInterval = Num(1500)
        /\ ~query.graceMs.present => graceMs = Num(5000)
        /\ ~query.gracePollMs.present => gracePollMs = Num(800)

\* C11 (Scenario B): when the first main iteration's listing returns a record
\* whose own request_status is 'completed', the main loop is left after that
\* one iteration (attempts = 1, one listing, no sleep, no grace phase) and
\* the invocation answers 200 with meta.is_partial = false and
\* meta.attempts = 1, whatever getRequest answered or failed with.
C11_ScenarioB ==
    hist.firstRecordCompleted =>
        /\ pc \in {"graceGate", "classify", "done"}
        /\ attempts = 1
        /\ calls.list = 1 /\ calls.status = 1
        /\ calls.sleeps = 0 /\ calls.graceSleeps = 0 /\ calls.graceList = 0
        /\ ~hist.graceEntered
        /\ hist.iter.job \in StatusValues \cup {None, "failed"}
        /\ Done =>
              /\ response.code = 200
              /\ FullOut => /\ ~response.meta.is_partial
                            /\ response.meta.attempts = 1
                            /\ response.meta.request_status = "completed"

\* C11 witness: the 200 of Scenario B in an iteration whose getRequest
\* failed, the listing itself saying 'pending', grace having been asked for
C11_Witness ==
    /\ Done /\ hist.firstRecordCompleted
    /\ hist.iter.job = "failed"
    /\ requestStatus = "pending"
    /\ retryOnPending
    /\ response.code = 200 /\ FullOut /\ response.meta.attempts = 1

\* C12 (Scenario C): an invocation that got a job id, never received a
\* record and has retryOnPending false ends, once the main loop has timed
\* out, with 202, meta.is_partial = true and an empty movement list (no
\* most-recent movement either), whatever getRequest answered and whichever
\* poll calls failed; the minimal profile answers 202 as well.
C12_ScenarioC ==
    (Done /\ GotJobId /\ ~completed.present /\ ~retryOnPending) =>
        /\ hist.mainExit = "timedout"
        /\ ~hist.graceEntered /\ calls.graceList = 0
        /\ response.code = 202
        /\ response.movimentacoes = << >>
        /\ response.ultima_movimentacao = NoMovement
        /\ FullOut => /\ response.meta.is_partial
                      /\ response.meta.attempts = attempts

\* C12 witness: Scenario C after two iterations, a failed poll among them,
\* the job-status endpoint having said 'completed'
C12_Witness ==
    /\ Done /\ GotJobId /\ ~completed.present /\ ~retryOnPending
    /\ attempts = 2 /\ hist.pollFailed /\ requestStatus = "completed"
    /\ FullOut /\ response.code = 202 /\ response.meta.is_partial
    /\ response.movimentacoes = << >>

\* the record the latest non-empty first page carried, as the history has it
LastSeenLawsuit == LawsuitOf(Record(completed.request_status, hist.lastSerial))

\* C13 (Scenario D): when a record is held, neither status signal says
\* 'completed' at the end, retryOnPending is true (so the grace phase ran and
\* timed out), the invocation answers 202 and the body is normalized from
\* the record of the latest non-empty first page of the main or grace phase;
\* in the full profile with ok = true, erro = null, meta.is_partial = true
\* and meta.message the 'still finishing' explanation.
C13_ScenarioD ==
    (Done /\ GotJobId /\ completed.present /\ ~SignalCompleted /\ retryOnPending) =>
        /\ hist.graceEntered /\ hist.graceExit = "timedout"
        /\ response.code = 202
        /\ response.lawsuit = LastSeenLawsuit
        /\ FullOut =>
              /\ response.ok /\ response.erro = NoError
              /\ response.meta.is_partial
              /\ response.meta.message = PartialMessage
              /\ Top(response.lawsuit).code = CodeOf(hist.lastSerial)
              /\ response = buildFullPayload(202, ParseCnj(query.cnj), LastSeenLawsuit,
                                NoError, response.meta, IncludeAttachments)
        /\ MinimalOut =>
              response = buildMinimalPayload(202, ParseCnj(query.cnj), LastSeenLawsuit)

\* C13 witness: Scenario D where the main loop held one record and the grace
\* phase replaced it by a later one
C13_Witness ==
    /\ Done /\ GotJobId /\ completed.present /\ ~SignalCompleted /\ retryOnPending
    /\ calls.list >= 1 /\ hist.lastSerial > calls.list
    /\ hist.iter.phase = "grace"
    /\ FullOut /\ response.code = 202 /\ response.ok
    /\ response.meta.message = PartialMessage
    /\ Len(response.movimentacoes) > 0

\* an invocation of the full profile that polled and did not end Completed
NotCompletedFull ==
    Done /\ GotJobId /\ FullOut /\ ~(completed.present /\ SignalCompleted)

\* C14 as claimed: in the full profile both TimeoutNoData and PartialResult
\* answer 202 with a meta.message and without being flagged as an error
\* (ok = true, erro = null).
C14_NeitherIsFlaggedAsError ==
    NotCompletedFull =>
        /\ response.code = 202
        /\ response.meta.message # None
        /\ response.ok /\ response.erro = NoError

\* C14 amended: both answer 202 with meta.is_partial = true.  PartialResult
\* (a record is held) is no error: ok = true, erro = null, meta.message is
\* the 'still finishing' explanation.  TimeoutNoData (no record) is flagged:
\* ok = false, the explanation is in erro.message and meta.message is absent.
C14_PartialIsNoErrorTimeoutIsFlagged ==
    NotCompletedFull =>
        /\ response.code = 202
        /\ response.meta.is_partial
        /\ completed.present =>
              /\ response.ok /\ response.erro = NoError
              /\ response.meta.message = PartialMessage
        /\ ~completed.present =>
              /\ ~response.ok
              /\ response.erro = Error(TimeoutMessage)
              /\ response.meta.message = None

\* C14 witness: a TimeoutNoData answer after a main loop and a grace phase
\* that both timed out
C14_Witness ==
    /\ NotCompletedFull /\ ~completed.present
    /\ hist.graceExit = "timedout" /\ attempts >= 1
    /\ response.code = 202 /\ ~response.ok
    /\ response.erro.message = TimeoutMessage

\* the identifier is missing, empty or made of whitespace
BlankCnj == ~query.cnj.present \/ \A i \in 1..Len(query.cnj.chars) : query.cnj.chars[i] = " "

\* C15: an invocation whose cnj is missing, empty or whitespace-only ends, as
\* the handler's first step, with 400, ok = false and the message that cnj
\* is required, no upstream call having been made, also when the credential
\* is missing too; and only such an invocation ends with 400.
C15_BlankCnjIs400 ==
    /\ (pc # "start" /\ BlankCnj) =>
          /\ Done /\ response.code = 400
          /\ calls = NoCalls /\ hist.usedIds = {} /\ hist.submitOutcome = "none"
          /\ now = 0
          /\ response.cnj = NullCnj
          /\ FullOut => ~response.ok /\ response.erro = Error(CnjRequiredMessage)
    /\ (Done /\ response.code = 400) => BlankCnj

\* C15 witness: a whitespace-only cnj with the credential missing as well
C15_Witness ==
    /\ Done /\ BlankCnj /\ query.cnj.present /\ Len(query.cnj.chars) > 0
    /\ ~env.apiKey
    /\ FullOut /\ response.code = 400 /\ ~response.ok

\* an invocation of the minimal profile that ended on a failure path: blank
\* cnj, missing credential, failed submission, missing job id, or no record
\* within the deadline
MinimalFailure ==
    /\ Done /\ MinimalOut
    /\ \/ response.code \in {400, 500, 502}
       \/ response.code = 202 /\ ~completed.present

\* the failure paths that do not echo the identifier: the 400, and the catch
NoCnjEcho == response.code = 400 \/ hist.submitOutcome = "httpError"

C17_NoAttachmentsUnlessAsked ==
    Done =>
        /\ ~IncludeAttachments => response.anexos = << >>
        /\ hist.submitOutcome = "httpError" => response.anexos = << >>
        /\ response.anexos # << >> =>
              /\ response.anexos = RD(response.lawsuit).attachments.items
              /\ response.code \in {200, 202}

\* C17 witness: attachments were requested from upstream (withAttachments),
\* the record carries them, the output was not asked to include them
C17_Witness ==
    /\ Done /\ FullOut /\ response.code = 200
    /\ ~IncludeAttachments /\ WithAttachments
    /\ RD(response.lawsuit).attachments = Array(<<8, 9>>)
    /\ response.anexos = << >>

\* the step list the normalizer was given, and whether every date in it is
\* one that new Date parses
InputSteps == StepsOf(LawsuitOf(completed))
AllDatesParse == \A i \in 1..Len(InputSteps) : ~DateValue(InputSteps[i].step_date).nan

\* the output movements are the input steps, each once
PermutationOfInput ==
    /\ Len(response.movimentacoes) = Len(InputSteps)
    /\ \A i \in 1..Len(InputSteps) :
          Cardinality({ j \in 1..Len(response.movimentacoes) :
                           response.movimentacoes[j] = Movement(InputSteps[i]) }) = 1

\* no movement is followed by one with a later timestamp
SortedNonAscending ==
    \A i, j \in 1..Len(response.movimentacoes) :
        i < j => ~Lt(DateValue(response.movimentacoes[i].data),
                     DateValue(response.movimentacoes[j].data))

\* movements of the same timestamp keep the order they came in
TiesKeepInputOrder ==
    \A i, j \in 1..Len(response.movimentacoes) :
        (i < j /\ response.movimentacoes[i].data = response.movimentacoes[j].data)
            => response.movimentacoes[i].id < response.movimentacoes[j].id

\* the most-recent movement and its two duplicates are the head of the list
MostRecentIsFirst ==
    IF response.movimentacoes = << >>
    THEN /\ response.ultima_movimentacao = NoMovement
         /\ response.ultima_movimentacao_data = None /\ response.texto = None
    ELSE /\ response.ultima_movimentacao = response.movimentacoes[1]
         /\ response.ultima_movimentacao_data = response.movimentacoes[1].data
         /\ response.texto = response.movimentacoes[1].conteudo

\* the minimal profile, which has no list: its date is that of a step, and
\* no step is later
MinimalMostRecent ==
    IF InputSteps = << >>
    THEN response.ultima_movimentacao_data = None /\ response.texto = None
    ELSE /\ \E i \in 1..Len(InputSteps) :
               /\ response.ultima_movimentacao_data = OrNull(InputSteps[i].step_date)
               /\ response.texto = OrNull(InputSteps[i].content)
         /\ AllDatesParse =>
               \A i \in 1..Len(InputSteps) :
                   ~Lt(DateValue(response.ultima_movimentacao_data),
                       DateValue(InputSteps[i].step_date))

HasDegree == Len(response.fonte) = 3
DegreeOut == response.fonte[3]

\* the instance value of the payload, when one level only carries one
InstanceGiven == RD(response.lawsuit).instance
OneInstance == Top(response.lawsuit).instance = JAbsent \/ ~response.lawsuit.rd.present

\* the degree the claim gives an instance value: verbatim unless null
DegreeVerbatimUnlessNull(v) ==
    CASE v \in {JNum(1), JStr("1")} -> "1o grau"
      [] v \in {JNum(2), JStr("2")} -> "2o grau"
      [] v = JAbsent -> GrauFallback
      [] v = JNum(0) -> "0"
      [] v = JStr("") -> ""
      [] v = JNum(3) -> "3"
      [] OTHER -> v.s

\* the degree the code gives: 0 and '' get the fallback literal too
DegreeVerbatimUnlessFalsy(v) ==
    CASE v \in {JNum(1), JStr("1")} -> "1o grau"
      [] v \in {JNum(2), JStr("2")} -> "2o grau"
      [] v \in {JAbsent, JNum(0), JStr("")} -> GrauFallback
      [] v = JNum(3) -> "3"
      [] OTHER -> v.s

\* C19 as claimed: 1 or "1" gives "1o grau", 2 or "2" gives "2o grau", any
\* other non-null instance value, 0 and the empty string included, is
\* rendered verbatim, null or absent gives the fallback literal.
C19_DegreeVerbatimUnlessNull ==
    (Done /\ HasDegree /\ OneInstance) =>
        DegreeOut = DegreeVerbatimUnlessNull(InstanceGiven)

\* C19 amended: 1 or "1" gives "1o grau", 2 or "2" gives "2o grau", any
\* other truthy value is rendered verbatim, and a value that is null, absent
\* or falsy (0, the empty string) gives the fallback literal; a falsy
\* instance at the response_data level gives way to the lawsuit's own.
C19_DegreeVerbatimUnlessFalsy ==
    (Done /\ HasDegree) =>
        /\ OneInstance => DegreeOut = DegreeVerbatimUnlessFalsy(InstanceGiven)
        /\ ~OneInstance =>
              DegreeOut = IF InstanceGiven \in {JAbsent, JNum(0), JStr("")}
                          THEN DegreeVerbatimUnlessFalsy(Top(response.lawsuit).instance)
                          ELSE DegreeVerbatimUnlessFalsy(InstanceGiven)

\* C19 witness: an instance of 0 beside a tribunal, labelled with the
\* fallback literal
C19_Witness ==
    /\ Done /\ FullOut /\ HasDegree /\ OneInstance
    /\ InstanceGiven = JNum(0)
    /\ response.fonte = <<"TJBA", " - ", GrauFallback>>

\* the lawsuit an outcome was normalized from: that of the record held, on
\* the two paths that normalize one
LawsuitGiven ==
    IF response.code \in {200, 202} /\ completed.present
    THEN LawsuitOf(completed) ELSE NoLawsuit

\* the tribunal acronym of the record: that of the response_data level, else
\* the lawsuit's own; an empty acronym is none
Acronym(x) == x \notin {None, ""}
TribunalGiven ==
    IF Acronym(RD(LawsuitGiven).tribunal_acronym)
    THEN RD(LawsuitGiven).tribunal_acronym
    ELSE Top(LawsuitGiven).tribunal_acronym

\* C20: on every outcome path of both profiles the source label is
\* "{tribunal} - {degree}" exactly when the record carries a (non-empty)
\* tribunal acronym, and the fallback literal otherwise, which includes every
\* path that has no record; it is never null and never built from an absent
\* tribunal.
C20_SourceLabel ==
    Done =>
        /\ response.fonte # << >>
        /\ IF Acronym(TribunalGiven)
           THEN /\ Len(response.fonte) = 3
                /\ response.fonte[1] = TribunalGiven
                /\ response.fonte[2] = " - "
                /\ response.fonte[3] =
                      GrauFmt(Or(RD(LawsuitGiven).instance, Top(LawsuitGiven).instance))
           ELSE response.fonte = FonteFallback
        /\ \A i \in 1..Len(response.fonte) : response.fonte[i] # None
        /\ ~completed.present => response.fonte = FonteFallback

\* C20 witness: the minimal profile's partial answer, labelled from a
\* tribunal and instance found at the lawsuit's own level
C20_Witness ==
    /\ Done /\ MinimalOut /\ response.code = 202
    /\ ~Acronym(RD(LawsuitGiven).tribunal_acronym)
    /\ response.fonte = <<"TRF1", " - ", "2o grau">>

\* the status the payload states: that of the level the normalizer reads
StatusGiven == RD(LawsuitGiven).status

\* the three cases of the overall status, over the steps the payload has
StatusExpected ==
    IF Acronym(StatusGiven) THEN StatusGiven
    ELSE IF Len(StepsOf(LawsuitGiven)) >= 1 THEN "ANDAMENTO"
    ELSE "DESCONHECIDO"

\* C21: the overall status of a normalized result is the upstream status
\* when the payload states a (non-empty) one, else 'ANDAMENTO' when the
\* movement list has an entry, else 'DESCONHECIDO'; in the full profile it
\* is never null, error and no-data paths included, where it is
\* 'DESCONHECIDO'.
C21_OverallStatus ==
    Done =>
        /\ FullOut =>
              /\ response.status = StatusExpected
              /\ response.status # None
              /\ Acronym(StatusGiven)
                    \/ response.status =
                          (IF Len(response.movimentacoes) >= 1
                           THEN "ANDAMENTO" ELSE "DESCONHECIDO")
              /\ ~completed.present => response.status = "DESCONHECIDO"
        /\ (MinimalOut /\ response.code \in {200, 202} /\ completed.present) =>
              response.status = StatusExpected

\* C21 witness: a payload whose status is the empty string and which has
\* steps, reported as 'ANDAMENTO'
C21_Witness ==
    /\ Done /\ FullOut /\ completed.present
    /\ StatusGiven = ""
    /\ Len(response.movimentacoes) = 2
    /\ response.status = "ANDAMENTO"

\* the record as the listing delivered it
RecordDelivered == hist.iter.page.first

Wrapper == LawsuitGiven.rd
Direct == LawsuitGiven.top

\* C23 as claimed: when the lawsuit carries a response_data wrapper, every
\* extracted field the wrapper has is taken from the wrapper, also when the
\* lawsuit's own level has it too: the movement list, the tribunal acronym,
\* the instance and the status.
C23_WrapperPreferred ==
    (Done /\ FullOut /\ LawsuitGiven.present /\ Wrapper.present) =>
        /\ Wrapper.steps.isArray =>
              response.movimentacoes =
                  [i \in 1..Len(Wrapper.steps.items) |->
                      Movement(ArraySort(Wrapper.steps.items)[i])]
        /\ Acronym(Wrapper.tribunal_acronym) =>
              response.fonte[1] = Wrapper.tribunal_acronym
        /\ Truthy(Wrapper.instance) => response.instancia = Wrapper.instance
        /\ Acronym(Wrapper.status) => response.status = Wrapper.status

\* the time since polling started, and since the grace phase was entered
MainElapsed == Num(now - start)
GraceElapsed == Num(now - hist.graceAt)

\* a main iteration has just started; a grace iteration has just started
MainIterationStarts == pc = "getRequest"
GraceIterationStarts == pc = "graceResponses"

\* what the deadline tests do, step by step: at the head of the main loop
\* an iteration starts when the elapsed time is below waitMs and the loop is
\* left, with no call, otherwise; the same at the head of the grace loop,
\* against graceMs and the time since the grace phase was entered
DeadlineSteps ==
    /\ pc = "loopTest" =>
          IF Lt(MainElapsed, waitMs)
          THEN pc' = "getRequest" /\ attempts' = attempts + 1
          ELSE pc' = "graceGate" /\ attempts' = attempts
    /\ pc = "graceTest" =>
          IF Lt(GraceElapsed, graceMs)
          THEN pc' = "graceResponses"
          ELSE pc' = "classify"
    /\ pc \in {"loopTest", "graceTest"} => calls' = calls /\ now' = now
    /\ (pc \in MainPcs /\ attempts' # attempts) => pc = "loopTest"

\* C24: deadlines are checked at loop entry only.  A main iteration starts
\* only while the time since poll start is below waitMs, a grace iteration
\* only while the time since the grace phase began is below graceMs; a test
\* that finds the deadline reached, as after a sleep, leaves the loop
\* without a call; the grace budget runs from the entry of the grace phase,
\* whatever the main phase has used.
C24_DeadlinesAtLoopEntry ==
    /\ [](MainIterationStarts => Lt(MainElapsed, waitMs))
    /\ [](GraceIterationStarts => Lt(GraceElapsed, graceMs))
    /\ [](hist.graceEntered => graceStart = hist.graceAt /\ hist.graceAt >= start)
    /\ [][DeadlineSteps]_vars

\* C24 witness: a grace iteration that starts after a main loop which slept,
\* timed out and used more time than the whole grace budget
C24_Witness ==
    /\ GraceIterationStarts
    /\ hist.mainExit = "timedout" /\ calls.sleeps >= 1
    /\ ~graceMs.nan /\ now - start > graceMs.v

\* the upstream calls made so far
UpstreamCalls == calls.submit + calls.status + calls.list + calls.graceList

\* where the main loop stands, told by its counters: in iteration n
\* GetJobStatus is the n-th status call, ListResults the n-th listing, made
\* after it, and n - 1 sleeps lie behind
SequentialOrder ==
    /\ calls.submit <= 1
    /\ (calls.status + calls.list + calls.graceList >= 1) =>
          calls.submit = 1 /\ hist.submitOutcome = "ok"
    /\ pc = "getRequest" =>
          calls.status = attempts - 1 /\ calls.list = attempts - 1
              /\ calls.sleeps = attempts - 1
    /\ pc = "getResponses" =>
          calls.status = attempts /\ calls.list = attempts - 1
              /\ calls.sleeps = attempts - 1
    /\ pc = "sleep" =>
          calls.status = attempts /\ calls.list = attempts
              /\ calls.sleeps = attempts - 1
    /\ pc = "loopTest" =>
          calls.status = attempts /\ calls.list = attempts
              /\ calls.sleeps = attempts
    /\ pc \in GracePcs \cup {"graceGate", "classify"} =>
          calls.status = attempts /\ calls.list = attempts
              /\ calls.sleeps \in {attempts - 1, attempts}

\* one step makes at most one upstream call, a sleep makes none and lasts
\* the configured interval, which never changes once parsed
SequentialSteps ==
    /\ UpstreamCalls' \in {UpstreamCalls, UpstreamCalls + 1}
    /\ pc = "sleep" =>
          /\ now' - now = SleepDelay(pollInterval)
          /\ UpstreamCalls' = UpstreamCalls
          /\ pc' = "loopTest"
    /\ pc = "graceSleep" =>
          /\ now' - now = SleepDelay(gracePollMs)
          /\ UpstreamCalls' = UpstreamCalls
    /\ pc # "start" => pollInterval' = pollInterval /\ gracePollMs' = gracePollMs
    /\ pc = "getRequest" => pc' = "getResponses" /\ calls'.status = calls.status + 1
    /\ pc = "getResponses" => calls'.list = calls.list + 1

\* C25: an invocation is strictly sequential.  The submission is over before
\* any poll call; in main iteration n, GetJobStatus is made and over (with
\* an answer or a failure) before ListResults is made, one call per step;
\* between two iterations there is exactly one sleep, of the configured
\* interval, the same every time.
C25_StrictlySequential == []SequentialOrder /\ [][SequentialSteps]_vars

\* C25 witness: the second iteration begins after a first one whose polls
\* failed, one sleep between them
C25_Witness ==
    /\ pc = "getRequest" /\ attempts = 2
    /\ calls.sleeps = 1 /\ calls.status = 1 /\ calls.list = 1
    /\ hist.pollFailed
    /\ now - start >= SleepDelay(pollInterval)

\* the step is a GetJobStatus call that failed; a ListResults call of the
\* main or the grace loop that failed or returned an empty first page
GetJobStatusFailed == pc = "getRequest" /\ hist'.iter.job = "failed"
ListResultsGaveNothing ==
    pc \in {"getResponses", "graceResponses"} /\ hist'.iter.page = EmptyPage

\* such a step keeps the tracked status and the record, and goes on: to the
\* listing of the same iteration, or to the sleep before the next one
FailedPollSteps ==
    /\ GetJobStatusFailed =>
          /\ requestStatus' = requestStatus /\ completed' = completed
          /\ pc' = "getResponses"
    /\ ListResultsGaveNothing =>
          /\ requestStatus' = requestStatus /\ completed' = completed
          /\ pc' = IF pc = "getResponses" THEN "sleep" ELSE "graceSleep"
    /\ (GetJobStatusFailed \/ ListResultsGaveNothing) =>
          /\ response' = response /\ attempts' = attempts
          /\ requestId' = requestId

\* C26: a failed poll call leaves what the orchestrator remembers as it
\* was: after a failed GetJobStatus, and after a ListResults that failed or
\* returned an empty first page (main or grace loop), the tracked status and
\* the record held are the same as before, and polling goes on.
C26_FailedPollKeepsState == [][FailedPollSteps]_vars

\* C26 witness: in the second iteration GetJobStatus has failed while a
\* record of the first iteration is held, and both are as they were
C26_Witness ==
    /\ pc = "getResponses" /\ attempts = 2
    /\ hist.iter.job = "failed"
    /\ completed.present /\ completed.serial = 1
    /\ requestStatus = hist.iter.prev
    /\ hist.iter.page = EmptyPage

StatusCodes == {200, 202, 400, 500, 502}

\* a response, once sent, is the response
RespondsOnce == response # NoResponse => response' = response /\ pc' = pc

\* C27: every invocation ends, with one response whose status code is 200,
\* 202, 400, 500 or 502, whatever the upstream answers (successes, failures,
\* empty pages, any status value), given that every call returns and every
\* timer fires; a job that never completes does not keep it polling.
C27_Terminates ==
    /\ <>Done
    /\ [](Done <=> response # NoResponse)
    /\ [](Done => response.code \in StatusCodes)
    /\ [][RespondsOnce]_vars

\* C27 witness: an invocation that ended although no poll ever said
\* 'completed': the main loop polled at least twice and ran to its deadline
C27_Witness ==
    /\ Done /\ response.code = 202
    /\ hist.mainExit = "timedout"
    /\ attempts >= 2 /\ calls.sleeps >= 1
    /\ hist.obsAttempt = 0 /\ requestStatus = "pending"

\* the main loop ran to its deadline with no record, and the request asked
\* for a grace phase of positive length
GraceOwed ==
    /\ GotJobId /\ hist.mainExit = "timedout"
    /\ retryOnPending /\ Lt(Num(0), graceMs)

\* C28: when retryOnPending is set, graceMs is positive and the main loop ends
\* at its deadline without a record, the invocation answers TimeoutNoData
\* only after the grace phase was entered and listed the results at least
\* once, whatever job status the main loop saw.
C28_GraceBeforeTimeoutNoData ==
    (Done /\ GraceOwed /\ ~completed.present /\ TimeoutNoDataOut)
        => hist.graceEntered /\ calls.graceList >= 1

\* every listing call is numbered, a record carries the number of the call
\* that returned it, and the main loop's k-th iteration makes the k-th call:
\* the held record was returned in or after the iteration that first saw
\* 'completed'
FetchedSinceCompleted == completed.serial >= hist.obsAttempt

\* C29: an invocation that answers 200 normalizes a record that a listing
\* call returned in or after the iteration in which 'completed' was first
\* seen; a record fetched while every signal said not-completed is not
\* reported complete without being fetched again.
C29_CompleteRecordIsFresh ==
    (Done /\ GotJobId /\ CompletedOut /\ hist.obsAttempt # 0)
        => FetchedSinceCompleted

\* C30: in the full profile, on every outcome path, meta.is_partial is false
\* exactly when the status code is 200; every 202, 400, 500 and 502 response
\* has meta.is_partial true, and every 200 response has ok true, erro null
\* and meta.request_status 'completed'.
C30_PartialFlagMatchesCode ==
    (Done /\ FullOut) =>
        /\ response.code \in StatusCodes
        /\ ~response.meta.is_partial <=> response.code = 200
        /\ response.code \in {202, 400, 500, 502} => response.meta.is_partial
        /\ response.code = 200 =>
              /\ response.ok
              /\ response.erro = NoError
              /\ response.meta.request_status = "completed"

\* C30 witness: a 200 whose meta says 'completed' while the tracked status
\* never did: the record's own status decided
C30_Witness ==
    /\ Done /\ FullOut /\ response.code = 200
    /\ response.ok /\ response.erro = NoError
    /\ ~response.meta.is_partial
    /\ response.meta.request_status = "completed"
    /\ requestStatus # "completed"

\* the step is a listing call of the main or the grace loop that returned a
\* non-empty first page
ListResultsGavePage ==
    /\ pc \in {"getResponses", "graceResponses"}
    /\ hist'.iter.page # EmptyPage

\* a record, once held, stays held; a non-empty first page replaces it by
\* the page's first item, and no other step touches it
RecordSteps ==
    /\ completed.present => completed'.present
    /\ ListResultsGavePage =>
          /\ completed' = hist'.iter.page.first
          /\ completed'.serial = calls.list + calls.graceList + 1
    /\ ~ListResultsGavePage => completed' = completed

\* some listing call has returned a non-empty first page
SeenRecord == hist.lastSerial # 0

\* the record held is the one of the latest non-empty first page, and the
\* response is built from it
EndsWithLatestRecord ==
    (Done /\ SeenRecord) =>
        /\ completed.present /\ completed.serial = hist.lastSerial
        /\ response.code \in {200, 202}
        /\ response.lawsuit = LawsuitOf(completed)
        /\ FullOut => response.ok /\ response.erro = NoError
        /\ ~TimeoutNoDataOut

\* C31: the remembered record is monotone: once a poll has stored one, no
\* later step of the main or grace phase (a failed call, an empty first
\* page, a status update) resets it to absent; at the end it is the first
\* item of the most recent non-empty first page, and an invocation that has
\* seen a record never ends in TimeoutNoData.
C31_RecordIsMonotone ==
    /\ [][RecordSteps]_vars
    /\ [](SeenRecord <=> completed.present)
    /\ []EndsWithLatestRecord

\* C31 witness: the record of a second or later listing is held, a listing
\* after it gave none, a poll call has failed, and the invocation ended with
\* a response built from that record
C31_Witness ==
    /\ Done /\ response.code \in {200, 202}
    /\ completed.present /\ completed.serial >= 2
    /\ hist.lastSerial = completed.serial
    /\ calls.list + calls.graceList > completed.serial
    /\ hist.pollFailed
    /\ response.lawsuit = LawsuitOf(completed)

\* the step starts a main iteration: it leaves the head of the main loop for
\* the iteration's first call
StartsMainIteration == pc = "loopTest" /\ pc' = "getRequest"

\* the counter goes up by one when a main iteration starts and at no other
\* step, whatever the iteration's calls answer
AttemptSteps ==
    attempts' = IF StartsMainIteration THEN attempts + 1 ELSE attempts

\* every main iteration makes one GetJobStatus call, answered or failed:
\* the iterations started are the calls made, plus the one about to be made
MainIterationsStarted ==
    calls.status + (IF pc = "getRequest" THEN 1 ELSE 0)

\* the polling outcomes of the full profile report the counter
ReportsAttempts ==
    (Done /\ FullOut /\ GotJobId) =>
        /\ response.code \in {200, 202}
        /\ response.meta.attempts = attempts
        /\ response.meta.attempts = calls.status

\* C32: meta.attempts is the number of main-loop iterations started: the
\* counter goes up once at the start of every main iteration, also when both
\* poll calls of it fail, grace iterations leave it unchanged, and an
\* invocation whose record came only in the grace phase reports the count of
\* the main phase alone.
C32_AttemptsCountMainIterations ==
    /\ [][AttemptSteps]_vars
    /\ [](attempts = MainIterationsStarted)
    /\ []ReportsAttempts

\* C32 witness: two main iterations whose listings gave no record, a poll
\* call failed, the record came in the second or a later grace iteration, and
\* the response reports two attempts
C32_Witness ==
    /\ Done /\ FullOut /\ response.code \in {200, 202}
    /\ completed.present /\ completed.serial > calls.list
    /\ calls.list = 2 /\ calls.graceList >= 2
    /\ hist.pollFailed
    /\ response.meta.attempts = 2

====
